---------------------------- MODULE Spec2Model ----------------------------
(***************************************************************************)
(* aestar: encrypted tar archives streamed onto sequential media.          *)
(*                                                                         *)
(* The module models the write path of src/aestar/aestar.py (AESFile,      *)
(* AESTarFile, PendingQueue), the medium double src/aestar/fakefile.py     *)
(* (FakeFile), the producer src/aestar/fileinfo.py (FileProcessor) and the *)
(* driver src/main.py (save_to_archive, backup).                           *)
(*                                                                         *)
(* Lengths are byte counts.  Contents of buffers are not modelled, only    *)
(* their lengths; the archive is uncompressed (compression=None), so every *)
(* byte the tar layer emits reaches tarfile.fileobj.buf unchanged.         *)
(***************************************************************************)
EXTENDS Integers, Sequences, FiniteSets, TLC

\* ------------------------------------------------------------------ bounds
\* number of items the producer delivers before the sentinel
NumItems == 3
\* number of volumes (AESTarFile objects) a backup may open
MaxVolumes == 3
\* number of add() calls made on one archive by the AESTarFile harness
MaxAdds == 4
\* number of records in a pending list handed to purge_pending directly
MaxPending == 3
\* number of sectors a file object used on its own is written up to
MaxSectors == 6

\* --------------------------------------------------------------- constants
SECTOR_SIZE == 512
\* tarfile.BLOCKSIZE: the tar block is one sector long
BLOCKSIZE == SECTOR_SIZE
\* tarfile.RECORDSIZE = BLOCKSIZE * 20
RECORDSIZE == BLOCKSIZE * 20
\* tarfile.copyfileobj copies a member's data in chunks of 16 KiB
COPYBUFSIZE == BLOCKSIZE * 32
\* the sentinel FileProcessor puts after the last item
None == 0

Items == 1..NumItems
\* st_size of the files in the source tree (0: a directory or an empty file)
Sizes == {0, 512, 1024}
\* bufsize given to AESTarFile (a multiple of SECTOR_SIZE, at least one sector)
BufSizes == {512, 1024}
\* FakeFile(size=...): capacity of a medium in bytes, -1 for no limit
Capacities == {-1, 2048, 2560, 4096, 12288}
FailureModes == {"ENOSPC", "WRITE0"}

VARIABLES
    queue,          \* contents of the producer's Queue (file_queue), oldest first
    to_put,         \* what FileProcessor.run still has to put, sentinel last
    restore_queue,  \* PendingQueue.restore_queue, leftmost element first
    restore,        \* PendingQueue.restore
    archive,        \* the current AESTarFile with its AESFile and its medium
    st_size,        \* size of the file behind every item
    bufsize,        \* bufsize every AESTarFile of the run is opened with
    failure_mode,   \* failure mode of the media of the run
    volume,         \* number of AESTarFile objects opened so far
    pc,             \* where the caller of the API stands
    last,           \* the last call made and what it returned or raised
    replay_left,    \* history: unconfirmed items not yet replayed since restore was set
    members,        \* history: per volume, the items whose add() returned
    commit_log,     \* history: the calls of commit_callback, in order
    eom_log,        \* history: per volume change, the item in flight and the unconfirmed items
    skipped         \* history: the items pre_add_callback has skipped

vars == <<queue, to_put, restore_queue, restore, archive, st_size, bufsize,
          failure_mode, volume, pc, last, replay_left, members, commit_log,
          eom_log, skipped>>

\* ------------------------------------------------------------------ helpers
Min(a, b) == IF a < b THEN a ELSE b

RECURSIVE SeqSum(_)
SeqSum(s) == IF s = <<>> THEN 0 ELSE Head(s) + SeqSum(Tail(s))

IsPrefix(s, t) == Len(s) <= Len(t) /\ SubSeq(t, 1, Len(s)) = s

Range(s) == {s[i] : i \in 1..Len(s)}

\* F applied to the value of v, v being evaluated once
With(v, F(_)) == CHOOSE y \in {F(x) : x \in {v}} : TRUE

\* what a call leaves behind: the object afterwards and the exception raised
Ok(a) == [st |-> a, err |-> "none"]
Raise(a, e) == [st |-> a, err |-> e]

\* ------------------------------------------------------------- FakeFile
\* FakeFile.write(buffer) with len(buffer) = n: the medium afterwards, the
\* value returned and the exception raised
FakeFile_write(a, n) ==
    IF a.fclosed
    THEN [st |-> a, err |-> "ValueError", result |-> 0]
    ELSE IF a.size >= 0 /\ n + a.written > a.size
         THEN IF a.failure_mode = "ENOSPC"
              THEN [st |-> a, err |-> "ENOSPC", result |-> 0]
              ELSE [st |-> a, err |-> "none", result |-> 0]
         ELSE [st |-> [a EXCEPT !.written = @ + n], err |-> "none", result |-> n]

\* ---------------------------------------------------------------- AESFile
\* a loop of AESFile.write that drops a sector the medium raised on and goes on
RECURSIVE AESFile_write_sectors_swallowing(_, _)
AESFile_write_sectors_swallowing(a, n) ==
    IF n = 0
    THEN Ok(a)
    ELSE With(FakeFile_write(a, SECTOR_SIZE), LAMBDA r :
            AESFile_write_sectors_swallowing([r.st EXCEPT !.sector = @ + 1], n - 1))

\* a loop of AESFile.write that calls _next_sector once, after the last sector
RECURSIVE AESFile_write_sectors_once(_, _)
AESFile_write_sectors_once(a, n) ==
    IF n = 0
    THEN Ok(a)
    ELSE With(FakeFile_write(a, SECTOR_SIZE), LAMBDA r :
            IF r.err # "none"
            THEN Raise(r.st, r.err)
            ELSE AESFile_write_sectors_once(
                    IF n = 1 THEN [r.st EXCEPT !.sector = @ + 1] ELSE r.st,
                    n - 1))

\* the loop of AESFile.write over the n sectors of write_buffer: the result
\* of fileobj.write is not looked at, and _next_sector follows every write
\* that raised nothing
RECURSIVE AESFile_write_sectors(_, _)
AESFile_write_sectors(a, n) ==
    IF n = 0
    THEN Ok(a)
    ELSE With(FakeFile_write(a, SECTOR_SIZE), LAMBDA r :
            IF r.err # "none"
            THEN Raise(r.st, r.err)
            ELSE AESFile_write_sectors([r.st EXCEPT !.sector = @ + 1], n - 1))

\* a padding that adds a whole sector to a buffer that ends on a sector
PaddedLen_whole_sector(n) == n + (SECTOR_SIZE - (n % SECTOR_SIZE))

\* len(write_buffer) for a buffer of n bytes when pad is set
PaddedLen(n) ==
    IF n % SECTOR_SIZE # 0
    THEN n + (SECTOR_SIZE - (n % SECTOR_SIZE))
    ELSE n

\* an AESFile.write that counts the padded length in self.bytes
AESFile_write_counts_padding(a, n) ==
    IF n % SECTOR_SIZE # 0 /\ ~a.pad
    THEN Raise(a, "NotImplementedError")
    ELSE With(AESFile_write_sectors(a, PaddedLen(n) \div SECTOR_SIZE), LAMBDA r :
            IF r.err # "none"
            THEN r
            ELSE Ok([r.st EXCEPT !.bytes = @ + PaddedLen(n)]))

\* an AESFile.write that pads whether pad is set or not
AESFile_write_always_pads(a, n) ==
    With(AESFile_write_sectors(a, PaddedLen(n) \div SECTOR_SIZE), LAMBDA r :
        IF r.err # "none"
        THEN r
        ELSE Ok([r.st EXCEPT !.bytes = @ + n]))

\* AESFile.write(buffer) with len(buffer) = n
AESFile_write(a, n) ==
    IF n % SECTOR_SIZE # 0 /\ ~a.pad
    THEN Raise(a, "NotImplementedError")
    ELSE With(AESFile_write_sectors(a, PaddedLen(n) \div SECTOR_SIZE), LAMBDA r :
            IF r.err # "none"
            THEN r
            ELSE Ok([r.st EXCEPT !.bytes = @ + n]))

\* AESFile.tell()
tell(a) == a.bytes

\* ------------------------------------------------- tarfile (standard library)
\* _Stream.__write: the while loop that hands full buffers to the AESFile
RECURSIVE Stream_drain(_)
Stream_drain(a) ==
    IF a.buf > a.bufsize
    THEN With(AESFile_write(a, a.bufsize), LAMBDA r :
            IF r.err # "none"
            THEN r
            ELSE Stream_drain([r.st EXCEPT !.buf = @ - r.st.bufsize]))
    ELSE Ok(a)

\* _Stream.write(s) with len(s) = n
Stream_write(a, n) == Stream_drain([a EXCEPT !.buf = @ + n])

\* _Stream.close()
Stream_close(a) ==
    IF a.stream_closed
    THEN Ok(a)
    ELSE IF a.buf > 0
    THEN With(AESFile_write([a EXCEPT !.stream_closed = TRUE], a.buf), LAMBDA r :
            IF r.err # "none" THEN r ELSE Ok([r.st EXCEPT !.buf = 0]))
    ELSE Ok([a EXCEPT !.stream_closed = TRUE])

\* tarfile.copyfileobj(src, dst, length): n bytes in chunks of COPYBUFSIZE
RECURSIVE copyfileobj(_, _)
copyfileobj(a, n) ==
    IF n = 0
    THEN Ok(a)
    ELSE With(Stream_write(a, Min(n, COPYBUFSIZE)), LAMBDA r :
            IF r.err # "none"
            THEN r
            ELSE copyfileobj(r.st, n - Min(n, COPYBUFSIZE)))

\* the zero bytes TarFile.addfile writes after the data of a member
Padding(size) ==
    IF size % BLOCKSIZE > 0 THEN BLOCKSIZE - (size % BLOCKSIZE) ELSE 0

\* TarFile.addfile after the header has been written: data, padding, offset
TarFile_adddata(a, size) ==
    With(copyfileobj(a, size), LAMBDA r :
        IF r.err # "none"
        THEN r
        ELSE With(IF Padding(size) > 0 THEN Stream_write(r.st, Padding(size)) ELSE r,
                  LAMBDA p :
                    IF p.err # "none"
                    THEN p
                    ELSE Ok([p.st EXCEPT !.offset = @ + size + Padding(size)])))

\* a TarFile.add that does not ask whether the tarfile is closed
TarFile_add_unchecked(a, size, src_ok) ==
    IF ~src_ok
    THEN Raise(a, "OSError")
    ELSE With(Stream_write(a, BLOCKSIZE), LAMBDA h :
            IF h.err # "none"
            THEN h
            ELSE TarFile_adddata([h.st EXCEPT !.offset = @ + BLOCKSIZE], size))

\* TarFile.add(name, recursive=False) for a file of `size` bytes with a header
\* of one block; src_ok is false when the file cannot be read (lstat or open
\* raises an OSError whose errno is not ENOSPC)
TarFile_add(a, size, src_ok) ==
    IF a.closed
    THEN Raise(a, "OSError")
    ELSE IF ~src_ok
    THEN Raise(a, "OSError")
    ELSE With(Stream_write(a, BLOCKSIZE), LAMBDA h :
            IF h.err # "none"
            THEN h
            ELSE TarFile_adddata([h.st EXCEPT !.offset = @ + BLOCKSIZE], size))

\* the zero bytes TarFile.close writes after the two zero blocks
RecordPadding(offset) ==
    IF offset % RECORDSIZE > 0 THEN RECORDSIZE - (offset % RECORDSIZE) ELSE 0

\* the try body of TarFile.close(): the two zero blocks and the record padding
TarFile_trailer(a) ==
    With(Stream_write(a, 2 * BLOCKSIZE), LAMBDA z :
        IF z.err # "none"
        THEN z
        ELSE With([z.st EXCEPT !.offset = @ + 2 * BLOCKSIZE], LAMBDA o :
                IF RecordPadding(o.offset) > 0
                THEN Stream_write(o, RecordPadding(o.offset))
                ELSE Ok(o)))

\* a TarFile.close() that does not look at self.closed
TarFile_close_again(a) ==
    With(TarFile_trailer([a EXCEPT !.closed = TRUE]), LAMBDA t :
        With(Stream_close(t.st), LAMBDA s :
            IF s.err # "none" THEN s ELSE Raise(s.st, t.err)))

\* TarFile.close(): the finally clause closes the _Stream whatever happened
TarFile_close(a) ==
    IF a.closed
    THEN Ok(a)
    ELSE With(TarFile_trailer([a EXCEPT !.closed = TRUE]), LAMBDA t :
            With(Stream_close(t.st), LAMBDA s :
                IF s.err # "none" THEN s ELSE Raise(s.st, t.err)))

\* -------------------------------------------------------------- AESTarFile
\* AESTarFile(file, passphrase, bufsize=bs) on a medium of capacity `size`
AESTarFile(bs, size, mode) ==
    [num_files |-> 0, pending_files |-> <<>>, previous_pending_length |-> 0,
     bufsize |-> bs, closed |-> FALSE, stream_closed |-> FALSE, buf |-> 0,
     offset |-> 0,
     sector |-> 0, bytes |-> 0, pad |-> TRUE,
     written |-> 0, size |-> size, fclosed |-> FALSE, failure_mode |-> mode]

\* stats[1] + stats[2] <= self.aesfile.tell()
\* a test that forgets the bytes still in tarfile's buffer
Committable_offset_only(stats, t) == stats[3] <= t

Committable(stats, t) == stats[2] + stats[3] <= t

\* a purge that drops the committable records only and keeps every other one
purged_committable_only(pending, t) ==
    SelectSeq(pending, LAMBDA stats : ~(stats[2] + stats[3] <= t))

\* what purge_pending leaves of the list `pending` when tell() is t
purged(pending, t) ==
    With({i \in 1..Len(pending) : Committable(pending[i], t)}, LAMBDA remove_indices :
        IF remove_indices # {}
        THEN SubSeq(pending,
                    (CHOOSE i \in remove_indices : \A j \in remove_indices : j <= i) + 1,
                    Len(pending))
        ELSE pending)

\* AESTarFile.purge_pending()
purge_pending(a) ==
    [a EXCEPT !.previous_pending_length = Len(a.pending_files),
              !.pending_files = purged(a.pending_files, tell(a))]

\* AESTarFile.num_committed
num_committed(a) == a.num_files - Len(a.pending_files)

\* a close_early that closes the archive the way close() does: trailer and
\* staging buffer are flushed before the medium is closed
close_early_flushing(a) ==
    With(TarFile_close(a), LAMBDA t : [t.st EXCEPT !.fclosed = TRUE])

\* AESTarFile.close_early()
close_early(a) ==
    [a EXCEPT !.closed = TRUE, !.stream_closed = TRUE, !.fclosed = TRUE]

\* the record add() appends for the member it has just written
PendingRecord(a) == <<a.num_files, a.buf, tell(a), a.offset>>

\* an add that re-raises the end-of-medium error without close_early
add_no_close_early(a, size, src_ok) ==
    With(TarFile_add(purge_pending(a), size, src_ok), LAMBDA r :
        IF r.err \in {"ENOSPC", "OSError"}
        THEN Raise(purge_pending(r.st), r.err)
        ELSE IF r.err # "none"
        THEN r
        ELSE With([r.st EXCEPT !.num_files = @ + 1], LAMBDA n :
                Ok([n EXCEPT !.pending_files = Append(@, PendingRecord(n))])))

\* an add that records the member as pending without counting it in num_files
add_uncounted(a, size, src_ok) ==
    With(TarFile_add(purge_pending(a), size, src_ok), LAMBDA r :
        IF r.err \in {"ENOSPC", "OSError"}
        THEN With(purge_pending(r.st), LAMBDA q :
                Raise(IF r.err = "ENOSPC" THEN close_early(q) ELSE q, r.err))
        ELSE IF r.err # "none"
        THEN r
        ELSE Ok([r.st EXCEPT !.pending_files = Append(@, PendingRecord(r.st))]))

\* AESTarFile.add(name) for a file of `size` bytes
add(a, size, src_ok) ==
    With(TarFile_add(purge_pending(a), size, src_ok), LAMBDA r :
        IF r.err \in {"ENOSPC", "OSError"}
        THEN With(purge_pending(r.st), LAMBDA q :
                Raise(IF r.err = "ENOSPC" THEN close_early(q) ELSE q, r.err))
        ELSE IF r.err # "none"
        THEN r
        ELSE With([r.st EXCEPT !.num_files = @ + 1], LAMBDA n :
                Ok([n EXCEPT !.pending_files = Append(@, PendingRecord(n))])))

\* a close without the sanity check after its purge
close_unchecked(a) ==
    With(TarFile_close(a), LAMBDA t :
        IF t.err # "none"
        THEN t
        ELSE Ok(purge_pending([t.st EXCEPT !.fclosed = TRUE])))

\* AESTarFile.close()
close(a) ==
    With(TarFile_close(a), LAMBDA t :
        IF t.err # "none"
        THEN t
        ELSE With(purge_pending([t.st EXCEPT !.fclosed = TRUE]), LAMBDA p :
                IF p.num_files # num_committed(p)
                THEN Raise(p, "SanityError")
                ELSE Ok(p)))

\* an __exit__ that calls close() whether or not the body raised
AESTarFile_exit_always_close(a, exc_type) == close(a)

\* AESTarFile.__exit__(exc_type, exc_val, exc_tb); exc_type is true when the
\* body of the with statement raised
AESTarFile_exit(a, exc_type) ==
    IF ~exc_type
    THEN close(a)
    ELSE Ok(close_early(a))

\* ------------------------------------------------------------ PendingQueue
\* deque.pop() takes the rightmost element, deque.appendleft() adds at the left
PendingQueue(q, rq, r) == [queue |-> q, restore_queue |-> rq, restore |-> r]

\* queue.get() blocks while the queue is empty; get() reaches it unless it is
\* restoring and the restore queue still holds an item
get_blocks(p) ==
    ~(p.restore /\ p.restore_queue # <<>>) /\ p.queue = <<>>

\* PendingQueue.get(), when it does not block: the queue afterwards and the item
get(p) ==
    IF p.restore /\ p.restore_queue # <<>>
    THEN LET item == p.restore_queue[Len(p.restore_queue)]
             rest == SubSeq(p.restore_queue, 1, Len(p.restore_queue) - 1)
         IN [pq |-> [p EXCEPT !.restore_queue = <<item>> \o rest], item |-> item]
    ELSE LET item == Head(p.queue)
         IN [pq |-> [p EXCEPT !.queue = Tail(@), !.restore = FALSE,
                              !.restore_queue = <<item>> \o @],
             item |-> item]

\* PendingQueue.confirm(num): num pops from the right; a pop from the empty
\* deque raises IndexError after the pops before it have been made
confirm(rq, num) ==
    IF num <= 0
    THEN [restore_queue |-> rq, items |-> <<>>, err |-> "none"]
    ELSE IF num > Len(rq)
    THEN [restore_queue |-> <<>>, items |-> <<>>, err |-> "IndexError"]
    ELSE [restore_queue |-> SubSeq(rq, 1, Len(rq) - num),
          items |-> [i \in 1..num |-> rq[Len(rq) - i + 1]],
          err |-> "none"]

\* PendingQueue.qsize()
qsize(p) == Len(p.queue) + Len(p.restore_queue)

\* ---------------------------------------------------------- FileProcessor
\* FileProcessor.run: one queue.put per item, then the sentinel
FileProcessor_put ==
    /\ to_put # <<>>
    /\ queue' = Append(queue, Head(to_put))
    /\ to_put' = Tail(to_put)

\* position of an item in the producer's order, the sentinel last
pos(x) == IF x = None THEN NumItems + 1 ELSE x

\* the items of S, oldest in producer order first
RECURSIVE Oldest_first(_)
Oldest_first(S) ==
    IF S = {}
    THEN <<>>
    ELSE LET x == CHOOSE y \in S : \A z \in S : pos(y) <= pos(z)
         IN <<x>> \o Oldest_first(S \ {x})

Without(s, S) == SelectSeq(s, LAMBDA x : x \notin S)

\* ------------------------------------------------------------------- Init
InitProducer ==
    /\ queue = <<>>
    /\ to_put = [i \in 1..(NumItems + 1) |-> IF i <= NumItems THEN i ELSE None]

InitQueue ==
    /\ restore_queue = <<>>
    /\ restore = FALSE
    /\ replay_left = <<>>

InitHistory ==
    /\ last = [op |-> "init"]
    /\ members = <<<<>>>>
    /\ commit_log = <<>>
    /\ eom_log = <<>>
    /\ skipped = {}

\* ------------------------------------------- PendingQueue used on its own
\* a consumer that calls get() and confirm(k) in any order and sets restore
InitQ ==
    /\ InitProducer /\ InitQueue /\ InitHistory
    /\ bufsize = SECTOR_SIZE
    /\ failure_mode = "ENOSPC"
    /\ archive = AESTarFile(bufsize, -1, failure_mode)
    /\ st_size = [i \in Items |-> 0]
    /\ volume = 1
    /\ pc = "api"

Q_unchanged == UNCHANGED <<archive, st_size, bufsize, failure_mode, volume,
                           members, commit_log, eom_log, skipped>>

Q_put ==
    /\ FileProcessor_put
    /\ UNCHANGED <<restore_queue, restore, pc, last, replay_left>>
    /\ Q_unchanged

Q_get ==
    /\ pc = "api"
    /\ ~get_blocks(PendingQueue(queue, restore_queue, restore))
    /\ LET r == get(PendingQueue(queue, restore_queue, restore))
           expected == IF replay_left # <<>>
                       THEN Head(replay_left)
                       ELSE Head(queue \o to_put)
       IN /\ queue' = r.pq.queue
          /\ restore_queue' = r.pq.restore_queue
          /\ restore' = r.pq.restore
          /\ pc' = IF r.item = None THEN "drained" ELSE "api"
          /\ last' = [op |-> "get", item |-> r.item, expected |-> expected,
                      replayed |-> replay_left # <<>>]
          /\ replay_left' = Without(replay_left, {r.item})
    /\ UNCHANGED to_put
    /\ Q_unchanged

Q_confirm ==
    /\ \E num \in 0..(Len(restore_queue) + 1) :
          LET r == confirm(restore_queue, num)
          IN /\ restore_queue' = r.restore_queue
             /\ last' = [op |-> "confirm", num |-> num, items |-> r.items,
                         err |-> r.err, before |-> restore_queue,
                         restoring |-> restore]
             /\ replay_left' = Without(replay_left, Range(restore_queue) \ Range(r.restore_queue))
    /\ UNCHANGED <<queue, to_put, restore, pc>>
    /\ Q_unchanged

\* pending_queue.restore = True, as save_to_archive sets it
Q_set_restore ==
    /\ ~restore
    /\ restore' = TRUE
    /\ replay_left' = Oldest_first(Range(restore_queue))
    /\ last' = [op |-> "restore"]
    /\ UNCHANGED <<queue, to_put, restore_queue, pc>>
    /\ Q_unchanged

NextQ == Q_put \/ Q_get \/ Q_confirm \/ Q_set_restore

SpecQ == InitQ /\ [][NextQ]_vars

\* --------------------------------------------- AESTarFile used on its own
\* a caller that uses add, purge_pending, close and close_early in any order
InitA ==
    /\ InitProducer /\ InitQueue /\ InitHistory
    /\ bufsize \in BufSizes
    /\ failure_mode \in FailureModes
    /\ \E size \in Capacities : archive = AESTarFile(bufsize, size, failure_mode)
    /\ st_size = [i \in Items |-> 0]
    /\ volume = 1
    /\ pc = "api"

A_unchanged == UNCHANGED <<queue, to_put, restore_queue, restore, st_size,
                           bufsize, failure_mode, volume, pc, replay_left,
                           members, commit_log, eom_log, skipped>>

A_add ==
    /\ archive.num_files < MaxAdds
    /\ \E size \in Sizes, src_ok \in BOOLEAN :
          LET r == add(archive, size, src_ok)
          IN /\ archive' = r.st
             /\ last' = [op |-> "add", err |-> r.err, before |-> archive]
    /\ A_unchanged

A_purge_pending ==
    /\ archive' = purge_pending(archive)
    /\ last' = [op |-> "purge_pending", err |-> "none", before |-> archive]
    /\ A_unchanged

A_close ==
    /\ LET r == close(archive)
       IN /\ archive' = r.st
          /\ last' = [op |-> "close", err |-> r.err, before |-> archive]
    /\ A_unchanged

A_close_early ==
    /\ archive' = close_early(archive)
    /\ last' = [op |-> "close_early", err |-> "none", before |-> archive]
    /\ A_unchanged

\* the with statement on the archive is left, by an exception or not
A_exit ==
    /\ \E exc_type \in BOOLEAN :
       \E r \in {AESTarFile_exit(archive, exc_type)} :
          /\ archive' = r.st
          /\ last' = [op |-> "__exit__", exc_type |-> exc_type, err |-> r.err,
                      before |-> archive]
    /\ A_unchanged

NextA == A_add \/ A_purge_pending \/ A_close \/ A_close_early \/ A_exit

SpecA == InitA /\ [][NextA]_vars

\* ------------------------------------------ purge_pending as a function
\* purge_pending applied once to a pending list given from outside: records
\* numbered in the order of add, recorded buffer fills of at most bufsize,
\* recorded sink offsets that never decrease and never exceed tell()
PendingFills == {0, 512, 1024}
PendingTells == {0, 512, 1024, 1536}

InitP ==
    /\ InitProducer /\ InitQueue /\ InitHistory
    /\ bufsize = 1024
    /\ failure_mode = "ENOSPC"
    /\ \E n \in 0..MaxPending :
         \E fill \in [1..n -> PendingFills], off \in [1..n -> PendingTells],
            t \in PendingTells :
            /\ \A i \in 1..n : off[i] <= t
            /\ \A i \in 1..n, j \in 1..n : i <= j => off[i] <= off[j]
            /\ archive = [AESTarFile(bufsize, -1, failure_mode) EXCEPT
                             !.num_files = n,
                             !.pending_files =
                                 [i \in 1..n |-> <<i, fill[i], off[i], fill[i] + off[i]>>],
                             !.bytes = t]
    /\ st_size = [i \in Items |-> 0]
    /\ volume = 1
    /\ pc = "api"

P_purge_pending ==
    /\ pc = "api"
    /\ archive' = purge_pending(archive)
    /\ last' = [op |-> "purge_pending", err |-> "none", before |-> archive]
    /\ pc' = "purged"
    /\ UNCHANGED <<queue, to_put, restore_queue, restore, st_size, bufsize,
                   failure_mode, volume, replay_left, members, commit_log,
                   eom_log, skipped>>

NextP == P_purge_pending

SpecP == InitP /\ [][NextP]_vars

\* ------------------------------- TapeFile and AESFile used on their own
\* FakeFile(size, failure_mode)
FakeFile(size, mode) ==
    [written |-> 0, size |-> size, fclosed |-> FALSE, failure_mode |-> mode]

\* a file object opened unbuffered on a device: its write may accept fewer
\* bytes than it is given and reports the count
RawFile == [written |-> 0, fclosed |-> FALSE, raw |-> TRUE]

\* write(buffer) of the raw file object, len(buffer) = n, of which the device
\* accepts k
RawFile_write(a, n, k) ==
    IF a.fclosed
    THEN [st |-> a, err |-> "ValueError", result |-> 0]
    ELSE [st |-> [a EXCEPT !.written = @ + k], err |-> "none", result |-> k]

\* self.fileobj.write(buf) of TapeFile, whatever file object it wraps
fileobj_write(a, n, k) ==
    IF "raw" \in DOMAIN a THEN RawFile_write(a, n, k) ELSE FakeFile_write(a, n)

\* a TapeFile.write that passes a result of 0 on without raising
TapeFile_write_unchecked(a, n, k) ==
    With(fileobj_write(a, n, k), LAMBDA r : [st |-> r.st, err |-> r.err])

\* TapeFile.write(buf) with len(buf) = n
TapeFile_write(a, n, k) ==
    With(fileobj_write(a, n, k), LAMBDA r :
        IF r.err # "none"
        THEN Raise(r.st, r.err)
        ELSE IF r.result = 0
        THEN Raise(r.st, "ENOSPC")
        ELSE Ok(r.st))

\* open(file, mode='wb', buffering=bufsize) on a file with room: a buffered
\* file object takes every buffer whole
BufferedFile ==
    [written |-> 0, size |-> -1, fclosed |-> FALSE, failure_mode |-> "ENOSPC"]

\* arguments left at None: no path, no file object, no bufsize (a bufsize is
\* given as <<n>>)
NoPath == ""
NoObject == [none |-> TRUE]
NoBufsize == <<>>

\* TapeFile(file=file, fileobj=fileobj, bufsize=bs): the file object wrapped
\* (NoObject: no attribute fileobj is set) and the exception raised. An
\* object given as fileobj is true and so is a path; None is not
TapeFile(file, fileobj, bs) ==
    IF fileobj # NoObject
    THEN Ok(fileobj)
    ELSE IF file # NoPath /\ fileobj # NoObject
    THEN Raise(NoObject, "ValueError")
    ELSE IF file # NoPath
    THEN IF bs = NoBufsize
         THEN Raise(NoObject, "TypeError")
         ELSE IF bs = <<0>> THEN Ok(RawFile) ELSE Ok(BufferedFile)
    ELSE Ok(NoObject)

\* TapeFile.close() and AESFile.close(): self.fileobj.close()
fileobj_close(a) == [a EXCEPT !.fclosed = TRUE]

\* AESFile(passphrase, fileobj=FakeFile(size, failure_mode), pad=pad)
AESFile(size, mode, pad) ==
    [sector |-> 0, bytes |-> 0, pad |-> pad,
     written |-> 0, size |-> size, fclosed |-> FALSE, failure_mode |-> mode]

\* what AESFile.write returns when it returns: len(buffer)
AESFile_write_result(n) == n

\* len(buffer) of the buffers written to an AESFile
WriteLens == {0, 3, 512, 700, 1024}
\* len(buf) of the buffers written to a TapeFile
TapeLens == {0, 512, 700, 1024}
\* the counts a raw device may report for a buffer of n bytes: nothing, the
\* whole buffer, or the first sector of a longer buffer
Accepted(n) == {0, n} \cup (IF n > SECTOR_SIZE THEN {SECTOR_SIZE} ELSE {})

InitF ==
    /\ InitProducer /\ InitQueue /\ InitHistory
    /\ bufsize = SECTOR_SIZE
    /\ failure_mode \in FailureModes
    /\ \/ /\ pc = "TapeFile"
          /\ \/ archive = RawFile
             \/ \E size \in Capacities : archive = FakeFile(size, failure_mode)
       \/ /\ pc = "AESFile"
          /\ \E size \in Capacities, pad \in BOOLEAN :
                archive = AESFile(size, failure_mode, pad)
    /\ st_size = [i \in Items |-> 0]
    /\ volume = 1

F_unchanged == UNCHANGED <<queue, to_put, restore_queue, restore, st_size,
                           bufsize, failure_mode, volume, pc, replay_left,
                           members, commit_log, eom_log, skipped>>

F_TapeFile_write ==
    /\ pc = "TapeFile"
    /\ archive.written < MaxSectors * SECTOR_SIZE
    /\ \E n \in TapeLens : \E k \in Accepted(n) :
       \E f \in {fileobj_write(archive, n, k)} :
       \E r \in {TapeFile_write(archive, n, k)} :
          /\ archive' = r.st
          /\ last' = [op |-> "TapeFile.write", n |-> n, err |-> r.err,
                      fileobj_err |-> f.err, result |-> f.result,
                      before |-> archive]
    /\ F_unchanged

F_AESFile_write ==
    /\ pc = "AESFile"
    /\ archive.sector < MaxSectors
    /\ \E n \in WriteLens :
       \E r \in {AESFile_write(archive, n)} :
          /\ archive' = r.st
          /\ last' = [op |-> "AESFile.write", n |-> n, err |-> r.err,
                      result |-> IF r.err = "none"
                                 THEN AESFile_write_result(n) ELSE None,
                      before |-> archive]
    /\ F_unchanged

F_close ==
    /\ ~archive.fclosed
    /\ archive' = fileobj_close(archive)
    /\ last' = [op |-> "close", err |-> "none", before |-> archive]
    /\ F_unchanged

\* a TapeFile is constructed anew, on a path, on a file object, on both or
\* on neither; the object it wraps, if any, is the one written to from here on
F_TapeFile ==
    /\ pc = "TapeFile"
    /\ \E file \in {NoPath, "tapefile.tmp"} :
       \E fileobj \in {NoObject} \cup {FakeFile(size, failure_mode) : size \in Capacities} :
       \E bs \in {NoBufsize, <<0>>, <<SECTOR_SIZE>>} :
       \E r \in {TapeFile(file, fileobj, bs)} :
          /\ archive' = IF r.st # NoObject THEN r.st ELSE archive
          /\ last' = [op |-> "TapeFile", file |-> file, fileobj |-> fileobj,
                      bufsize |-> bs, err |-> r.err, wraps |-> r.st]
    /\ F_unchanged

NextF == F_TapeFile_write \/ F_AESFile_write \/ F_close \/ F_TapeFile

SpecF == InitF /\ [][NextF]_vars

\* -------------------------------------- AESFile with the bytes it encrypts
\* the longest medium written, in sectors
MaxCipherSectors == 3
\* the length of the IV and of the key, and the shortest passphrase aespipe takes
IV_SIZE == 16
KEY_SIZE == 16
MIN_PASSPHRASE == 20

\* n bytes of value b, and n bytes that differ from sector to sector
Fill(b, n) == [i \in 1..n |-> b]
Ramp(n) == [i \in 1..n |-> (i - 1) % 251]

\* hashlib.sha256(data).digest() and its first n bytes: the digest is a term
\* that differs for different data
sha256(data) == [sha256 |-> data]
Truncated(digest, n) == [digest |-> digest, first |-> n]

\* n.to_bytes(length, byteorder='little')
RECURSIVE to_bytes(_, _)
to_bytes(n, length) ==
    IF length = 0 THEN <<>> ELSE <<n % 256>> \o to_bytes(n \div 256, length - 1)

\* the bytes of s in reverse order
Reversed(s) == [i \in 1..Len(s) |-> s[Len(s) + 1 - i]]

\* AES.new(key, AES.MODE_CBC, IV=iv): a cipher object that has been fed nothing
AES_new(key, iv) == [key |-> key, iv |-> iv, fed |-> <<>>]

\* cipher.encrypt(data): in CBC mode the ciphertext is a function of the key,
\* the IV, everything the object was fed before, and data; it is as long as data
encrypt(c, data) == [key |-> c.key, iv |-> c.iv, fed |-> c.fed, plain |-> data]

\* the cipher object after encrypt(data)
fed_with(c, data) == [c EXCEPT !.fed = @ \o data]

\* the plaintext a CBC decryption with key and iv, started afresh, gives for
\* the ciphertext ct: the bytes encrypted if key, IV and chaining agree, and
\* other bytes if not
decrypt(key, iv, ct) ==
    IF ct.key = key /\ ct.iv = iv /\ ct.fed = <<>>
    THEN ct.plain
    ELSE Fill(-1, Len(ct.plain))

\* an _get_cipher that writes the sector index big-endian
get_cipher_big_endian(a) == AES_new(a.key, Reversed(to_bytes(a.sector, IV_SIZE)))

\* AESFile._get_cipher()
get_cipher(a) == AES_new(a.key, to_bytes(a.sector, IV_SIZE))

\* an _next_sector that keeps the cipher object of the sector before
next_sector_keeps_cipher(a) == [a EXCEPT !.sector = @ + 1]

\* AESFile._next_sector()
next_sector(a) ==
    With([a EXCEPT !.sector = @ + 1], LAMBDA b : [b EXCEPT !.cipher = get_cipher(b)])

\* AESFile(passphrase, fileobj=FakeFile(), sync=False, pad=pad), with the
\* bytes the FakeFile holds
CipherFile(passphrase, pad) ==
    With([key |-> Truncated(sha256(passphrase), KEY_SIZE), sector |-> 0,
          bytes |-> 0, pad |-> pad, cipher |-> None,
          fileobj |-> [buffer |-> <<>>, closed |-> FALSE, size |-> -1,
                       written |-> 0, failure_mode |-> "ENOSPC"]],
         LAMBDA a : [a EXCEPT !.cipher = get_cipher(a)])

\* FakeFile.write(buffer) of n bytes, the buffer kept
FakeFile_write_buffer(f, buffer, n) ==
    IF f.closed
    THEN [st |-> f, err |-> "ValueError", result |-> 0]
    ELSE IF f.size >= 0 /\ n + f.written > f.size
         THEN IF f.failure_mode = "ENOSPC"
              THEN [st |-> f, err |-> "ENOSPC", result |-> 0]
              ELSE [st |-> f, err |-> "none", result |-> 0]
         ELSE [st |-> [f EXCEPT !.buffer = Append(@, buffer), !.written = @ + n],
               err |-> "none", result |-> n]

\* FakeFile.close()
FakeFile_close(f) == [f EXCEPT !.buffer = <<>>, !.closed = TRUE]

\* buffer.ljust(width, b'\x00')
ljust(buffer, width) ==
    IF width <= Len(buffer) THEN buffer ELSE buffer \o Fill(0, width - Len(buffer))

\* write_buffer of AESFile.write: buffer, zero padded to a full sector
write_buffer(buffer) ==
    IF Len(buffer) % SECTOR_SIZE # 0
    THEN ljust(buffer, Len(buffer) + (SECTOR_SIZE - (Len(buffer) % SECTOR_SIZE)))
    ELSE buffer

\* the loop of AESFile.write from sector i of wb on: encrypt the slice with
\* the current cipher object, write it, _next_sector
RECURSIVE CipherFile_write_sectors(_, _, _)
CipherFile_write_sectors(a, wb, i) ==
    IF i >= Len(wb) \div SECTOR_SIZE
    THEN Ok(a)
    ELSE With(SubSeq(wb, SECTOR_SIZE * i + 1, SECTOR_SIZE * (i + 1)), LAMBDA slice :
         With(FakeFile_write_buffer(a.fileobj, encrypt(a.cipher, slice), Len(slice)),
              LAMBDA r :
            IF r.err # "none"
            THEN Raise([a EXCEPT !.cipher = fed_with(@, slice), !.fileobj = r.st],
                       r.err)
            ELSE CipherFile_write_sectors(
                    next_sector([a EXCEPT !.cipher = fed_with(@, slice),
                                          !.fileobj = r.st]),
                    wb, i + 1)))

\* AESFile.write(buffer)
CipherFile_write(a, buffer) ==
    IF Len(buffer) % SECTOR_SIZE # 0 /\ ~a.pad
    THEN Raise(a, "NotImplementedError")
    ELSE With(CipherFile_write_sectors(a, write_buffer(buffer), 0), LAMBDA r :
            IF r.err # "none"
            THEN r
            ELSE Ok([r.st EXCEPT !.bytes = @ + Len(buffer)]))

\* aespipe -d -P passphrase_file on the sectors of a medium: AES-128 in CBC
\* mode, each 512-byte sector decrypted afresh with the first 16 bytes of the
\* SHA-256 of the passphrase as the key and the index of the sector in the
\* stream, little-endian, as the IV; no header; a passphrase of fewer than 20
\* bytes is refused
RECURSIVE aespipe_sectors(_, _, _)
aespipe_sectors(key, sectors, n) ==
    IF n > Len(sectors)
    THEN <<>>
    ELSE decrypt(key, to_bytes(n - 1, IV_SIZE), sectors[n])
         \o aespipe_sectors(key, sectors, n + 1)

aespipe_decrypt(sectors, passphrase) ==
    IF Len(passphrase) < MIN_PASSPHRASE
    THEN <<>>
    ELSE aespipe_sectors(Truncated(sha256(passphrase), KEY_SIZE), sectors, 1)

\* the passphrases AESFile is built with: 20 bytes, 21 bytes, and 5 bytes
Passphrases == {Fill(7, 20), Fill(8, 21), Fill(7, 5)}
\* the buffers written: none, one sector, another sector, two sectors that
\* differ, three bytes
Buffers == {<<>>, Fill(1, SECTOR_SIZE), Fill(2, SECTOR_SIZE),
            Ramp(2 * SECTOR_SIZE), Fill(3, 3)}

InitC ==
    /\ InitProducer /\ InitQueue
    /\ members = <<<<>>>> /\ commit_log = <<>> /\ eom_log = <<>> /\ skipped = {}
    /\ bufsize = SECTOR_SIZE
    /\ failure_mode = "ENOSPC"
    /\ pc = "CipherFile"
    /\ \E passphrase \in Passphrases, pad \in BOOLEAN :
          /\ archive = CipherFile(passphrase, pad)
          /\ last = [op |-> "AESFile", passphrase |-> passphrase, err |-> "none",
                     plain |-> <<>>]
    /\ st_size = [i \in Items |-> 0]
    /\ volume = 1

\* write(buffer); the history keeps the passphrase and the write_buffers of
\* the calls that returned, end to end. The run is cut after the first write
\* that raised with a sector encrypted and not written (the cipher object
\* stays fed with it)
C_write ==
    /\ pc = "CipherFile"
    /\ archive.sector < MaxCipherSectors
    /\ archive.cipher.fed = <<>>
    /\ \E buffer \in Buffers :
       \E r \in {CipherFile_write(archive, buffer)} :
          /\ archive' = r.st
          /\ last' = [op |-> "AESFile.write", passphrase |-> last.passphrase,
                      err |-> r.err,
                      plain |-> IF r.err = "none"
                                THEN last.plain \o write_buffer(buffer)
                                ELSE last.plain]
    /\ F_unchanged

C_close ==
    /\ pc = "CipherFile"
    /\ ~archive.fileobj.closed
    /\ archive' = [archive EXCEPT !.fileobj = FakeFile_close(@)]
    /\ last' = [last EXCEPT !.op = "close", !.err = "none"]
    /\ F_unchanged

NextC == C_write \/ C_close

SpecC == InitC /\ [][NextC]_vars

\* ------------------------------------------------------ save_to_archive
\* the items confirm() returned are handed to commit_callback one by one; the
\* history notes for each whether a member written for that item on the
\* volume being written is among the num_committed first members
Commits(items, a, on_volume) ==
    [i \in 1..Len(items) |->
        [item |-> items[i],
         member_committed |->
            \E k \in 1..Len(on_volume) : k <= num_committed(a) /\ on_volume[k] = items[i]]]

\* what the try statement of save_to_archive does with the outcome of
\* archive.add: the archive, the restore flag and how the statement is left
\* ("continue", "return 1" or the exception raised), before the finally clause
try_add(r, restoring) ==
    IF r.err = "none"
    THEN [archive |-> r.st, restore |-> restoring, exit |-> "continue"]
    ELSE IF r.err = "OSError"
    THEN [archive |-> r.st, restore |-> restoring, exit |-> "OSError"]
    ELSE IF r.err = "ENOSPC"
    THEN IF restoring
         THEN [archive |-> r.st, restore |-> restoring, exit |-> "FatalEOT"]
         ELSE [archive |-> close_early(r.st), restore |-> TRUE, exit |-> "return 1"]
    ELSE [archive |-> r.st, restore |-> TRUE, exit |-> r.err]

\* archive.num_committed - prev_committed in the finally clause
diff(a, prev_committed) == num_committed(a) - prev_committed

\* how the loop body is left once the finally clause has run: an IndexError
\* raised by confirm() replaces whatever was under way
after_finally(exit, c) == IF c.err # "none" THEN c.err ELSE exit

\* one iteration of the for loop of save_to_archive, from pending_queue.get()
\* to the end of the finally clause; on the sentinel, archive.close() and
\* return 0
save_to_archive ==
    /\ pc = "save"
    /\ ~get_blocks(PendingQueue(queue, restore_queue, restore))
    /\ \E g \in {get(PendingQueue(queue, restore_queue, restore))} :
        /\ queue' = g.pq.queue
        /\ IF g.item = None
           THEN \E c \in {close(archive)} :
                  /\ archive' = c.st
                  /\ restore_queue' = g.pq.restore_queue
                  /\ restore' = g.pq.restore
                  /\ pc' = IF c.err = "none" THEN "saved" ELSE "raised"
                  /\ last' = [op |-> "save_to_archive", item |-> None,
                              exit |-> IF c.err = "none" THEN "return 0" ELSE c.err]
                  /\ UNCHANGED <<members, commit_log, eom_log, skipped>>
           ELSE \E skip \in BOOLEAN, src_ok \in BOOLEAN :
                  IF skip
                  THEN /\ restore_queue' = g.pq.restore_queue
                       /\ restore' = g.pq.restore
                       /\ skipped' = skipped \cup {g.item}
                       /\ pc' = "save"
                       /\ last' = [op |-> "save_to_archive", item |-> g.item,
                                   exit |-> "skip"]
                       /\ UNCHANGED <<archive, members, commit_log, eom_log>>
                  ELSE \E t \in {try_add(add(archive, st_size[g.item], src_ok),
                                         g.pq.restore)} :
                       \E c \in {confirm(g.pq.restore_queue,
                                         diff(t.archive, num_committed(archive)))} :
                       \E exit \in {after_finally(t.exit, c)} :
                         /\ archive' = t.archive
                         /\ restore' = t.restore
                         /\ restore_queue' = c.restore_queue
                         /\ members' = IF t.exit = "continue"
                                       THEN [members EXCEPT ![volume] = Append(@, g.item)]
                                       ELSE members
                         /\ commit_log' = commit_log \o Commits(c.items, t.archive, members'[volume])
                         /\ eom_log' = IF exit = "return 1"
                                       THEN Append(eom_log,
                                                [item |-> g.item,
                                                 unconfirmed |-> Oldest_first(Range(c.restore_queue))])
                                       ELSE eom_log
                         /\ pc' = CASE exit = "continue" -> "save"
                                    [] exit = "return 1" -> "next_volume"
                                    [] OTHER -> "raised"
                         /\ last' = [op |-> "save_to_archive", item |-> g.item,
                                     exit |-> exit, add |-> t.exit,
                                     diff |-> diff(t.archive, num_committed(archive)),
                                     unconfirmed |-> Len(g.pq.restore_queue),
                                     restoring |-> g.pq.restore]
                         /\ UNCHANGED skipped
    /\ UNCHANGED <<to_put, st_size, bufsize, failure_mode, volume, replay_left>>

\* ----------------------------------------------------------------- backup
\* backup(): save_to_archive returned 1; next_volume() and a new AESTarFile
\* on the medium that has been loaded
next_volume ==
    /\ pc = "next_volume"
    /\ volume < MaxVolumes
    /\ \E size \in Capacities : archive' = AESTarFile(bufsize, size, failure_mode)
    /\ volume' = volume + 1
    /\ members' = Append(members, <<>>)
    /\ pc' = "save"
    /\ last' = [op |-> "next_volume"]
    /\ UNCHANGED <<queue, to_put, restore_queue, restore, st_size, bufsize,
                   failure_mode, replay_left, commit_log, eom_log, skipped>>

\* backup(): save_to_archive returned 0; db.commit() and archive.close()
backup_close ==
    /\ pc = "saved"
    /\ \E c \in {close(archive)} :
         /\ archive' = c.st
         /\ pc' = IF c.err = "none" THEN "done" ELSE "raised"
         /\ last' = [op |-> "close", err |-> c.err, before |-> archive]
    /\ UNCHANGED <<queue, to_put, restore_queue, restore, st_size, bufsize,
                   failure_mode, volume, replay_left, members, commit_log,
                   eom_log, skipped>>

\* FileProcessor runs in a process of its own
producer ==
    /\ FileProcessor_put
    /\ UNCHANGED <<restore_queue, restore, archive, st_size, bufsize,
                   failure_mode, volume, pc, last, replay_left, members,
                   commit_log, eom_log, skipped>>

\* the state backup() is in when it first calls save_to_archive
Init ==
    /\ InitProducer /\ InitQueue /\ InitHistory
    /\ bufsize \in BufSizes
    /\ failure_mode \in FailureModes
    /\ \E size \in Capacities : archive = AESTarFile(bufsize, size, failure_mode)
    /\ st_size \in [Items -> Sizes]
    /\ volume = 1
    /\ pc = "save"

Next == producer \/ save_to_archive \/ next_volume \/ backup_close

Spec == Init /\ [][Next]_vars

\* the capacities of the first medium in the runs checked for termination
LiveCapacities == {-1, 1024, 2048}

\* the state backup() is in when it first calls save_to_archive
InitLive ==
    /\ InitProducer /\ InitQueue /\ InitHistory
    /\ bufsize \in BufSizes
    /\ failure_mode \in FailureModes
    /\ \E size \in LiveCapacities : archive = AESTarFile(bufsize, size, failure_mode)
    /\ st_size \in [Items -> Sizes]
    /\ volume = 1
    /\ pc = "save"

\* the producer is a process of its own and backup() a sequential program:
\* each takes its next step whenever it is not blocked
SpecLive ==
    /\ InitLive /\ [][Next]_vars
    /\ WF_vars(producer)
    /\ WF_vars(save_to_archive)
    /\ WF_vars(next_volume)
    /\ WF_vars(backup_close)

\* ------------------------------------------------------------- FileFilter
\* FileFilter(queue_in, queue_out, callback), started: the thread is in run().
\* queue_in is the producer's queue; forwarded is the history of what run()
\* has put into queue_out
FileFilter ==
    [queue_out |-> <<>>, alive |-> TRUE, forwarded |-> <<>>]

\* queue_out.put(item)
queue_out_put(ff, item) ==
    [ff EXCEPT !.queue_out = Append(@, item), !.forwarded = Append(@, item)]

\* FileFilter.run, from one self.queue_in.get() that returned `item` to the
\* next: iter(self.queue_in.get, None) ends the loop when get() returns None,
\* before the body; the body is run for every other item, `callback` being
\* what self.callback(item) returns
FileFilter_run(ff, item, callback) ==
    IF item = None
    THEN [ff EXCEPT !.alive = FALSE]
    ELSE IF item = None
    THEN [queue_out_put(ff, item) EXCEPT !.alive = FALSE]
    ELSE IF ~callback
    THEN queue_out_put(ff, item)
    ELSE ff

InitT ==
    /\ InitProducer /\ InitQueue /\ InitHistory
    /\ archive = FileFilter
    /\ st_size = [i \in Items |-> 0]
    /\ bufsize = SECTOR_SIZE
    /\ failure_mode = "ENOSPC"
    /\ volume = 1
    /\ pc = "FileFilter"

T_unchanged == UNCHANGED <<to_put, restore_queue, restore, st_size, bufsize,
                          failure_mode, volume, pc, replay_left, members,
                          commit_log, eom_log>>

\* the thread takes the next item from queue_in; get() blocks on an empty queue
T_run ==
    /\ archive.alive
    /\ queue # <<>>
    /\ \E callback \in BOOLEAN :
          /\ archive' = FileFilter_run(archive, Head(queue), callback)
          /\ skipped' = IF Head(queue) # None /\ callback
                        THEN skipped \cup {Head(queue)} ELSE skipped
          /\ last' = [op |-> "FileFilter.run", item |-> Head(queue),
                      callback |-> callback]
    /\ queue' = Tail(queue)
    /\ T_unchanged

\* the consumer takes the next item from queue_out; get() blocks on an empty
\* queue
T_get ==
    /\ archive.queue_out # <<>>
    /\ archive' = [archive EXCEPT !.queue_out = Tail(@)]
    /\ last' = [op |-> "queue_out.get", item |-> Head(archive.queue_out)]
    /\ UNCHANGED <<queue, skipped>>
    /\ T_unchanged

NextT == producer \/ T_run \/ T_get

\* FileProcessor is a process, FileFilter a thread, the consumer the main
\* thread: each runs whenever it is not blocked
SpecT ==
    /\ InitT /\ [][NextT]_vars
    /\ WF_vars(producer) /\ WF_vars(T_run) /\ WF_vars(T_get)

\* ================================================================== claims
Count(x, s) == Cardinality({i \in 1..Len(s) : s[i] = x})

\* the items of every volume's archive, volume after volume
RECURSIVE Flatten(_)
Flatten(ss) == IF ss = <<>> THEN <<>> ELSE Head(ss) \o Flatten(Tail(ss))

\* the items from x to the last one, in producer order
From(x) == [i \in 1..(NumItems - x + 1) |-> x + i - 1]

\* C1: every get() returns the oldest unconfirmed item that has not been
\* replayed since restore was set and, when there is none, the next item of
\* the producer that has not been read: producer order, each item once.
C1_GetFollowsProducerOrder ==
    last.op = "get" => last.item = last.expected

\* C2: confirm(k) returns the k oldest unconfirmed items, oldest in producer
\* order first, and removes exactly those from the restore queue, in normal
\* mode and while restoring.
C2_ConfirmOldest ==
    (last.op = "confirm" /\ last.err = "none") =>
        /\ last.items = SubSeq(Oldest_first(Range(last.before)), 1, last.num)
        /\ Range(restore_queue) = Range(last.before) \ Range(last.items)

\* C3: when end-of-medium is raised on the first volume while item c is added
\* and c is the only unconfirmed item, and no item is skipped, the second
\* volume's archive is made of c and the items after it, in order, and no
\* item is a member twice across the volumes.
C3_SecondVolumeContinues ==
    (skipped = {} /\ Len(members) >= 2 /\ eom_log[1].unconfirmed = <<eom_log[1].item>>) =>
        /\ IsPrefix(members[2], From(eom_log[1].item))
        /\ \A x \in Items : Count(x, Flatten(members)) <= 1

\* C4: when save_to_archive has returned 0 and no item was skipped,
\* commit_callback has been called exactly once for every item of the producer.
C4_CommitOncePerItem ==
    (pc \in {"saved", "done"} /\ skipped = {}) =>
        \A x \in Items : Count(x, [i \in 1..Len(commit_log) |-> commit_log[i].item]) = 1

\* C5: commit_callback(x) is only called when a member written for x on the
\* volume being written is counted committed.
C5_CommitAfterDurable ==
    \A i \in 1..Len(commit_log) : commit_log[i].member_committed

\* C6: once save_to_archive has returned 0, the producer queue and the restore
\* queue are empty.
C6_QueuesEmptyAfterReturn0 ==
    pc = "saved" =>
        /\ queue = <<>>
        /\ restore_queue = <<>>
        /\ qsize(PendingQueue(queue, restore_queue, restore)) = 0

\* C7: no call of add (returning or raising), purge_pending, close or
\* close_early on an archive lowers num_committed, and num_committed never
\* exceeds num_files.
C7_NumCommittedMonotone ==
    last.op \in {"add", "purge_pending", "close", "close_early"} =>
        /\ num_committed(archive) >= num_committed(last.before)
        /\ num_committed(archive) <= archive.num_files
        /\ num_committed(archive) >= 0

C7_Witness ==
    /\ last.op = "add"
    /\ last.err = "ENOSPC"
    /\ last.before.pending_files # <<>>
    /\ num_committed(archive) > num_committed(last.before)
    /\ archive.pending_files # <<>>

\* C8: when close() returns, no member is pending and num_committed equals
\* num_files; when close() gets as far as its final purge_pending and a member
\* is still pending after it, close() raises the sanity-check error.
C8_CloseCommitsAll ==
    last.op = "close" =>
        /\ last.err = "none" =>
              /\ archive.pending_files = <<>>
              /\ num_committed(archive) = archive.num_files
        /\ last.err \in {"none", "SanityError"} =>
              (archive.pending_files # <<>> <=> last.err = "SanityError")

C8_Witness ==
    /\ last.op = "close"
    /\ last.err = "none"
    /\ ~last.before.closed
    /\ Len(last.before.pending_files) >= 2
    /\ archive.num_files >= 2

\* C9: purge_pending leaves a suffix of the pending list in its order; no
\* record it leaves has buffer fill + sink offset <= tell(); the last record
\* it removes has, so that nothing is removed when no record has.
C9_PurgeRemovesUpToLastCommittable ==
    last.op = "purge_pending" =>
        LET before == last.before.pending_files
            after == archive.pending_files
            k == Len(before) - Len(after)
        IN /\ k >= 0
           /\ after = SubSeq(before, k + 1, Len(before))
           /\ \A i \in 1..Len(after) : after[i][2] + after[i][3] > tell(last.before)
           /\ k > 0 => before[k][2] + before[k][3] <= tell(last.before)

C9_Witness ==
    /\ last.op = "purge_pending"
    /\ Len(last.before.pending_files) = 3
    /\ Len(archive.pending_files) = 1
    /\ last.before.pending_files[1][2] + last.before.pending_files[1][3] > tell(last.before)

\* C10: the member add() has just written is pending when add() returns, and
\* a record leaves the pending list only in a purge_pending at which its
\* buffer fill plus its sink offset is <= tell().
C10_PendingUntilPurged ==
    /\ (last.op = "add" /\ last.err = "none") =>
          /\ archive.pending_files # <<>>
          /\ archive.pending_files[Len(archive.pending_files)][1] = archive.num_files
          /\ num_committed(archive) <= archive.num_files - 1
    /\ last.op \in {"add", "purge_pending", "close", "close_early"} =>
          \A i \in 1..Len(last.before.pending_files) :
             LET stats == last.before.pending_files[i]
                 t == IF last.op = "add" /\ last.err = "none"
                      THEN tell(last.before)
                      ELSE tell(archive)
             IN stats \notin Range(archive.pending_files) => stats[2] + stats[3] <= t

C10_Witness ==
    /\ last.op = "purge_pending"
    /\ Len(archive.pending_files) < Len(last.before.pending_files)
    /\ archive.pending_files # <<>>
    /\ ~archive.closed

\* C11: an add() that raises ENOSPC got it from a medium that was open and
\* limited; it leaves num_files as it was, appends no pending record, has
\* purged once more after the failed write (no record left is committable at
\* the tell() reached) and has closed the archive early (tarfile, its stream
\* and the medium are closed).
C11_EnospcInAdd ==
    (last.op = "add" /\ last.err = "ENOSPC") =>
        LET b == last.before
            k == Len(b.pending_files) - Len(archive.pending_files)
        IN /\ b.failure_mode = "ENOSPC" /\ b.size >= 0 /\ ~b.fclosed
           /\ archive.num_files = b.num_files
           /\ k >= 0
           /\ archive.pending_files = SubSeq(b.pending_files, k + 1, Len(b.pending_files))
           /\ \A i \in 1..Len(archive.pending_files) :
                 archive.pending_files[i][2] + archive.pending_files[i][3] > tell(archive)
           /\ archive.closed /\ archive.stream_closed /\ archive.fclosed
           /\ archive.written = archive.sector * SECTOR_SIZE

C11_Witness ==
    /\ last.op = "add"
    /\ last.err = "ENOSPC"
    /\ ~last.before.closed
    /\ last.before.num_files >= 2
    /\ archive.previous_pending_length > Len(archive.pending_files)
    /\ archive.written > last.before.written

\* C12: close_early writes nothing to the medium, and no call made on an
\* archive that was closed early (add, purge_pending, close, close_early)
\* writes anything: the trailer and the staging buffer never reach the medium.
C12_NothingWrittenAfterCloseEarly ==
    /\ last.op = "close_early" =>
          /\ archive.written = last.before.written
          /\ archive.fclosed
    /\ (/\ last.op \in {"add", "purge_pending", "close", "close_early"}
        /\ last.before.closed /\ last.before.stream_closed /\ last.before.fclosed) =>
          /\ archive.written = last.before.written
          /\ archive.buf = last.before.buf

C12_Witness ==
    /\ last.op = "close"
    /\ last.before.closed /\ last.before.stream_closed /\ last.before.fclosed
    /\ last.before.buf > 0
    /\ last.before.pending_files # <<>>
    /\ last.before.written < last.before.offset

\* C13: when add raises ENOSPC while the restore flag is false, the call of
\* save_to_archive sets restore, leaves the item in flight unconfirmed in the
\* restore queue, and returns 1 without fetching another item: the caller
\* is at the point where it opens the next volume.
C13_EomInNormalMode ==
    (/\ last.op = "save_to_archive" /\ last.item # None /\ last.exit # "skip"
     /\ last.add = "return 1") =>
        /\ ~last.restoring
        /\ restore
        /\ last.exit = "return 1"
        /\ pc = "next_volume"
        /\ last.item \in Range(restore_queue)
        /\ \A i \in 1..Len(commit_log) : commit_log[i].item # last.item
        /\ archive.fclosed

\* C14: a call of save_to_archive in which add is called while the restore
\* flag is set never returns 1, and when that add raises ENOSPC the call
\* ends with the fatal exception: the caller is left by the exception and
\* opens no further volume.
C14_EomWhileRestoringIsFatal ==
    (last.op = "save_to_archive" /\ last.item # None /\ last.exit # "skip") =>
        /\ last.restoring => (last.exit # "return 1" /\ pc # "next_volume")
        /\ (archive.fclosed /\ last.restoring) =>
              (last.add = "FatalEOT" /\ last.exit = "FatalEOT" /\ pc = "raised")
        /\ last.add = "FatalEOT" => (last.restoring /\ archive.fclosed /\ restore)

\* C15: when archive.add raises anything but ENOSPC, the restore flag is set
\* when save_to_archive passes the exception on to its caller.
C15_RestoreSetOnOtherErrors ==
    (/\ last.op = "save_to_archive" /\ last.item # None /\ last.exit # "skip"
     /\ last.add \notin {"continue", "return 1", "FatalEOT"}) =>
        /\ pc = "raised"
        /\ restore

\* C16: when archive.add raises anything but ENOSPC, the archive has been
\* closed early (tarfile, its stream and the medium are closed) when the
\* exception reaches the caller of save_to_archive.
C16_CloseEarlyOnOtherErrors ==
    (/\ last.op = "save_to_archive" /\ last.item # None /\ last.exit # "skip"
     /\ last.add \notin {"continue", "return 1", "FatalEOT"}) =>
        /\ pc = "raised"
        /\ archive.closed /\ archive.stream_closed /\ archive.fclosed

\* C17: when the write of the file object TapeFile wraps raises nothing,
\* TapeFile.write raises ENOSPC if that write reported 0 bytes and raises
\* nothing if it reported any other count.
C17_ZeroWriteIsEnospc ==
    (last.op = "TapeFile.write" /\ last.fileobj_err = "none") =>
        /\ last.result = 0 => last.err = "ENOSPC"
        /\ last.result # 0 => last.err = "none"

C17_Witness ==
    /\ last.op = "TapeFile.write"
    /\ last.fileobj_err = "none"
    /\ last.result = 0
    /\ last.n > 0
    /\ last.before.written > 0
    /\ "raw" \notin DOMAIN archive
    /\ archive.failure_mode = "WRITE0"
    /\ last.err = "ENOSPC"

\* C18: during add() the sector index advances only for sector writes the
\* device accepted, and tell() advances by no more than the device accepted:
\* a sector write for which the device reports 0 bytes ends the add with
\* ENOSPC before the sector index or tell() moves.
C18_ZeroWriteSurfaced ==
    last.op = "add" =>
        LET b == last.before
        IN /\ (archive.sector - b.sector) * SECTOR_SIZE = archive.written - b.written
           /\ tell(archive) - tell(b) <= archive.written - b.written
           /\ (b.size >= 0 /\ ~b.fclosed /\ archive.sector * SECTOR_SIZE > b.size)
                 => last.err = "ENOSPC"

\* C19: a TapeFile.write that raises nothing has put the whole buffer on the
\* device, whatever count the first write of the device reported.
C19_ShortWriteRequeued ==
    (last.op = "TapeFile.write" /\ last.err = "none") =>
        archive.written = last.before.written + last.n

\* C20: AESFile.write of a buffer whose length n is not a multiple of 512, on
\* an AESFile with pad set and an open medium with room for the padded
\* buffer, raises nothing, puts n \div 512 + 1 sectors on the medium, returns
\* n and moves tell() on by n; whenever such a write returns at all, it
\* returns n and has moved tell() on by n and the sector index by
\* n \div 512 + 1.
C20_PaddedWrite ==
    (/\ last.op = "AESFile.write"
     /\ last.n % SECTOR_SIZE # 0
     /\ last.before.pad) =>
        LET b == last.before
            sectors == last.n \div SECTOR_SIZE + 1
            room == b.size < 0 \/ b.written + sectors * SECTOR_SIZE <= b.size
        IN /\ (~b.fclosed /\ room) =>
                 /\ last.err = "none"
                 /\ archive.written = b.written + sectors * SECTOR_SIZE
           /\ last.err = "none" =>
                 /\ last.result = last.n
                 /\ tell(archive) = tell(b) + last.n
                 /\ archive.sector = b.sector + sectors

C20_Witness ==
    /\ last.op = "AESFile.write"
    /\ last.n = 700
    /\ last.err = "none"
    /\ last.before.pad
    /\ last.before.size >= 0
    /\ tell(last.before) % SECTOR_SIZE # 0
    /\ archive.written = last.before.written + 1024
    /\ tell(archive) < archive.written

\* C21: an AESFile.write of a buffer whose length is no multiple of 512 on an
\* AESFile without pad raises an error and changes nothing: not the bytes on
\* the medium, not the sector index, not tell()
C21_UnalignedWithoutPadRejected ==
    (last.op = "AESFile.write" /\ last.n % SECTOR_SIZE # 0 /\ ~last.before.pad)
    => /\ last.err = "NotImplementedError"
       /\ archive.written = last.before.written
       /\ archive.sector = last.before.sector
       /\ tell(archive) = tell(last.before)
       /\ archive = last.before

\* an unaligned buffer is rejected by an AESFile without pad that has
\* sectors on the medium already
C21_Witness ==
    /\ last.op = "AESFile.write"
    /\ last.n = 700
    /\ ~last.before.pad
    /\ ~last.before.fclosed
    /\ last.before.sector = 2
    /\ last.before.written = 2 * SECTOR_SIZE
    /\ last.err = "NotImplementedError"

C23_SectorIndependence ==
    (pc = "CipherFile" /\ ~archive.fileobj.closed) =>
        /\ archive.fileobj.buffer =
              CipherFile_write(CipherFile(last.passphrase, archive.pad),
                               last.plain).st.fileobj.buffer
        /\ Len(archive.fileobj.buffer) * SECTOR_SIZE = Len(last.plain)
        /\ \A n \in 1..Len(archive.fileobj.buffer) :
              archive.fileobj.buffer[n] =
                 [key |-> archive.key, iv |-> to_bytes(n - 1, IV_SIZE), fed |-> <<>>,
                  plain |-> SubSeq(last.plain, SECTOR_SIZE * (n - 1) + 1,
                                   SECTOR_SIZE * n)]

\* one sector was written and then two more in a second call
C23_Witness ==
    /\ pc = "CipherFile"
    /\ last.op = "AESFile.write"
    /\ last.err = "none"
    /\ last.plain = Fill(1, SECTOR_SIZE) \o Ramp(2 * SECTOR_SIZE)
    /\ Len(archive.fileobj.buffer) = 3
    /\ archive.sector = 3

\* C24: for a passphrase of at least 20 bytes, decrypting the medium as
\* aespipe -d does (key: first 16 bytes of the SHA-256 of the passphrase; IV
\* of a sector: its index in the stream, little-endian; no header) gives the
\* plaintext written
C24_AespipeRoundTrip ==
    (/\ pc = "CipherFile"
     /\ ~archive.fileobj.closed
     /\ Len(last.passphrase) >= MIN_PASSPHRASE) =>
        aespipe_decrypt(archive.fileobj.buffer, last.passphrase) = last.plain

\* three sectors written in two calls decrypt to the plaintext with the
\* passphrase of the AESFile, and to something else with another passphrase
C24_Witness ==
    /\ pc = "CipherFile"
    /\ last.op = "AESFile.write"
    /\ last.passphrase = Fill(8, 21)
    /\ last.plain = Ramp(2 * SECTOR_SIZE) \o Fill(2, SECTOR_SIZE)
    /\ archive.sector = 3
    /\ aespipe_decrypt(archive.fileobj.buffer, last.passphrase) = last.plain
    /\ aespipe_decrypt(archive.fileobj.buffer, Fill(7, 20)) # last.plain

\* the pad length of a write of n bytes: what is missing to a full sector
PadLen(n) == IF n % SECTOR_SIZE = 0 THEN 0 ELSE SECTOR_SIZE - (n % SECTOR_SIZE)

\* C25 as stated: after a write that returned, on a medium without limit, the
\* bytes on the medium are tell(), or tell() plus the pad length of that
\* write if it was padded
C25_TellIsMediumBytes ==
    (/\ last.op = "AESFile.write"
     /\ last.err = "none"
     /\ last.before.size < 0
     /\ ~last.before.fclosed) =>
        archive.written - tell(archive) = PadLen(last.n)

\* C25, amended: a write of n bytes that returns raises tell() by n and the
\* sector index by (n + pad length) / 512, and on an open medium with room
\* for them the bytes on the medium by n + pad length: the medium gets ahead
\* of tell() by the pad length of every padded write, not of the final one only
C25_TellLagsByPadding ==
    (last.op = "AESFile.write" /\ last.err = "none") =>
        /\ tell(archive) - tell(last.before) = last.n
        /\ (archive.sector - last.before.sector) * SECTOR_SIZE
              = last.n + PadLen(last.n)
        /\ (/\ ~last.before.fclosed
            /\ \/ last.before.size < 0
               \/ last.before.written + last.n + PadLen(last.n) <= last.before.size)
           => (archive.written - tell(archive))
                 - (last.before.written - tell(last.before)) = PadLen(last.n)

\* a write of one whole sector returned, after an earlier padded write: the
\* final write was not padded and the medium is 509 bytes ahead of tell()
C25_Witness ==
    /\ last.op = "AESFile.write"
    /\ last.err = "none"
    /\ last.n = SECTOR_SIZE
    /\ last.before.size < 0
    /\ ~last.before.fclosed
    /\ last.before.written - tell(last.before) = SECTOR_SIZE - 3
    /\ archive.written - tell(archive) = SECTOR_SIZE - 3
    /\ archive.written = last.before.written + SECTOR_SIZE

\* C26: a TapeFile constructed with both a path and a file object raises
\* ValueError and wraps neither
C26_BothFileAndFileobj ==
    (last.op = "TapeFile" /\ last.file # NoPath /\ last.fileobj # NoObject) =>
        /\ last.err = "ValueError"
        /\ last.wraps = NoObject

\* C27: a close() that returned leaves the tarfile, its stream and the medium
\* closed and nothing pending, and a close() of an archive in that state
\* raises nothing, writes nothing to the medium, stages nothing and leaves
\* num_files and num_committed as they were
C27_CloseIdempotent ==
    /\ (last.op = "close" /\ last.err = "none") =>
          /\ archive.closed /\ archive.stream_closed /\ archive.fclosed
          /\ archive.pending_files = <<>>
    /\ (/\ last.op = "close"
        /\ last.before.closed /\ last.before.stream_closed /\ last.before.fclosed
        /\ last.before.pending_files = <<>>) =>
          /\ last.err = "none"
          /\ archive.written = last.before.written
          /\ archive.buf = last.before.buf
          /\ archive.sector = last.before.sector
          /\ archive.num_files = last.before.num_files
          /\ num_committed(archive) = num_committed(last.before)

\* close() is called on an archive with members whose trailer is on the
\* medium up to a full record: the close before it went through
C27_Witness ==
    /\ last.op = "close"
    /\ last.err = "none"
    /\ last.before.closed /\ last.before.stream_closed /\ last.before.fclosed
    /\ last.before.pending_files = <<>>
    /\ last.before.num_files >= 2
    /\ last.before.size < 0
    /\ last.before.buf = 0
    /\ last.before.written >= RECORDSIZE
    /\ last.before.written % RECORDSIZE = 0
    /\ last.before.written = last.before.bytes
    /\ archive.written = last.before.written

\* C28: when save_to_archive returns 1, the items passed to commit_callback
\* in that iteration are the members of the volume that the failing add newly
\* counted as committed, oldest first
C28_CommitsBeforeReturn1 ==
    (last.op = "save_to_archive" /\ last.exit = "return 1") =>
        /\ last.diff >= 0
        /\ last.diff <= Len(commit_log)
        /\ last.diff <= num_committed(archive)
        /\ [i \in 1..last.diff |-> commit_log[Len(commit_log) - last.diff + i].item]
              = SubSeq(members[volume], num_committed(archive) - last.diff + 1,
                       num_committed(archive))

\* C29 as stated: an add on an archive that went through close_early raises
\* and leaves num_files, pending_files and the medium as they were
C29_DeadAfterCloseEarly ==
    (/\ last.op = "add"
     /\ last.before.closed /\ last.before.stream_closed /\ last.before.fclosed) =>
        /\ last.err # "none"
        /\ archive.num_files = last.before.num_files
        /\ archive.pending_files = last.before.pending_files
        /\ archive.written = last.before.written

\* C29, amended: an add on an archive that went through close_early raises
\* OSError, leaves num_files, the medium, the staging buffer and tell() as
\* they were and records no member; pending_files is what purge_pending makes
\* of it, so records that were committable and not yet purged are dropped
C29_DeadAfterCloseEarlyButPurged ==
    (/\ last.op = "add"
     /\ last.before.closed /\ last.before.stream_closed /\ last.before.fclosed) =>
        /\ last.err = "OSError"
        /\ archive.num_files = last.before.num_files
        /\ archive.written = last.before.written
        /\ archive.buf = last.before.buf
        /\ tell(archive) = tell(last.before)
        /\ archive.pending_files
              = purged(last.before.pending_files, tell(last.before))
        /\ archive.closed /\ archive.stream_closed /\ archive.fclosed

\* an add on an archive closed early raised, and its purge dropped a record
\* that close_early had found unpurged
C29_Witness ==
    /\ last.op = "add"
    /\ last.before.closed /\ last.before.stream_closed /\ last.before.fclosed
    /\ last.before.buf > 0
    /\ last.before.written < RECORDSIZE
    /\ last.err = "OSError"
    /\ Len(archive.pending_files) < Len(last.before.pending_files)
    /\ archive.pending_files # <<>>

\* C30: when the medium raises on a sector of an AESFile.write (it is closed,
\* or it is full and its failure mode is ENOSPC), write raises that same
\* error, tell() keeps its value, and the medium holds the sectors before the
\* failing one and none after it; the sector index has advanced for those only
C30_MediumErrorPropagates ==
    (/\ last.op = "AESFile.write"
     /\ last.n > 0
     /\ (last.n % SECTOR_SIZE = 0 \/ last.before.pad)
     /\ \/ last.before.fclosed
        \/ /\ last.before.failure_mode = "ENOSPC"
           /\ last.before.size >= 0
           /\ last.before.written + last.n + PadLen(last.n) > last.before.size) =>
        /\ last.err = IF last.before.fclosed THEN "ValueError" ELSE "ENOSPC"
        /\ tell(archive) = tell(last.before)
        /\ archive.written =
              IF last.before.fclosed
              THEN last.before.written
              ELSE last.before.written
                   + ((last.before.size - last.before.written) \div SECTOR_SIZE)
                     * SECTOR_SIZE
        /\ (archive.sector - last.before.sector) * SECTOR_SIZE
              = archive.written - last.before.written
        /\ archive.written - last.before.written < last.n + PadLen(last.n)

\* the second sector of a buffer of two sectors met the end of the medium:
\* the first one is on the medium, the error is ENOSPC, tell() is unchanged
C30_Witness ==
    /\ last.op = "AESFile.write"
    /\ last.n = 2 * SECTOR_SIZE
    /\ last.err = "ENOSPC"
    /\ ~last.before.fclosed
    /\ last.before.written = 4 * SECTOR_SIZE
    /\ archive.written = last.before.written + SECTOR_SIZE
    /\ archive.sector = last.before.sector + 1
    /\ tell(archive) = tell(last.before)
    /\ tell(archive) < archive.written

\* C31: __exit__ after a body that raised closes tarfile, stream and medium
\* and writes nothing: the medium, the staging buffer, the tar offset, tell()
\* and pending_files are as they were and no error is raised; __exit__ after
\* a body that raised nothing does what close() does, so that on an open
\* archive it either raises or leaves the trailer written and nothing pending
C31_ExitOnError ==
    /\ (last.op = "__exit__" /\ last.exc_type) =>
          /\ last.err = "none"
          /\ archive.closed /\ archive.stream_closed /\ archive.fclosed
          /\ archive.written = last.before.written
          /\ archive.buf = last.before.buf
          /\ archive.offset = last.before.offset
          /\ tell(archive) = tell(last.before)
          /\ archive.pending_files = last.before.pending_files
          /\ archive.num_files = last.before.num_files
    /\ (last.op = "__exit__" /\ ~last.exc_type) =>
          /\ archive = close(last.before).st
          /\ last.err = close(last.before).err
          /\ (last.err = "none" /\ ~last.before.closed) =>
                /\ archive.offset = last.before.offset + 2 * BLOCKSIZE
                /\ archive.buf = 0
                /\ archive.pending_files = <<>>
                /\ archive.fclosed

\* the body raised on an open archive with staged bytes and pending members:
\* the staged bytes and the trailer are not on the medium afterwards
C31_Witness ==
    /\ last.op = "__exit__"
    /\ last.exc_type
    /\ ~last.before.closed /\ ~last.before.fclosed
    /\ last.before.buf > 0
    /\ last.before.num_files >= 2
    /\ last.before.pending_files # <<>>
    /\ last.before.size < 0
    /\ archive.fclosed
    /\ archive.written = last.before.written
    /\ archive.written < RECORDSIZE

\* C32: in every state of an AESFile, also after a write that failed part-way,
\* tell() is at most the number of bytes the medium accepted
C32_TellWithinMedium ==
    pc = "AESFile" => tell(archive) <= archive.written

\* C33: in every iteration of save_to_archive that reaches the finally clause,
\* confirm(diff) is called with diff at most the number of items in the
\* restore queue, and so raises no IndexError
C33_ConfirmWithinUnconfirmed ==
    (last.op = "save_to_archive" /\ last.item # None /\ last.exit # "skip") =>
        /\ last.diff <= last.unconfirmed
        /\ last.exit # "IndexError"

\* C34: when every volume after the first is without limit, so that it takes
\* the replayed items and every further member, the loop of backup() reaches
\* the sentinel and save_to_archive returns 0. The runs set aside are those
\* where a later volume has a limit, where pre_add_callback skipped an item,
\* where an add raised OSError for its source file, and where the trailer did
\* not fit on a first volume with a limit
C34_ReachesSentinel ==
    <>(\/ pc \in {"saved", "done"}
       \/ volume > 1 /\ archive.size >= 0
       \/ skipped # {}
       \/ /\ pc = "raised" /\ last.op = "save_to_archive" /\ last.item # None
          /\ last.add = "OSError"
       \/ /\ pc = "raised" /\ last.op = "save_to_archive" /\ last.item = None
          /\ volume = 1 /\ archive.size >= 0)

\* the items FileProcessor has put that FileFilter has taken from queue_in
Taken == SubSeq([i \in 1..(NumItems + 1) |-> IF i <= NumItems THEN i ELSE None],
                1, (NumItems + 1) - Len(to_put) - Len(queue))

\* C35: what FileFilter has put into queue_out is, in order, every item it
\* has taken from queue_in for which callback returned false, and once it has
\* taken the sentinel, the sentinel after them
C35_FilterForwards ==
    pc = "FileFilter" =>
        archive.forwarded = SelectSeq(Taken, LAMBDA x : x \notin skipped)

=============================================================================
